---------------------------- MODULE Spec2Model ----------------------------
(***************************************************************************)
(* A model of the RAM-disk file store of ATOMIC_OS (src/fs_ramdisk.cpp)    *)
(* and of the kernel's bump allocator (src/memory.cpp), whose arena the    *)
(* store's region lies in.                                                 *)
(*                                                                         *)
(* The store keeps a superblock (total_blocks, free_blocks, file_count), a *)
(* byte-per-block allocation table (fat), a fixed directory of file        *)
(* records (file_table) and a data region, all inside one memory region.   *)
(* Every public operation of RAMDiskFS is one action; the private helpers  *)
(* are operators on a record holding the store's memory.                   *)
(*                                                                         *)
(* Scaling.  RAMDISK_BLOCK_SIZE (1024 in fs_ramdisk.h) and                 *)
(* RAMDISK_MAX_FILES (64 in fs_ramdisk.h) are scaled down so that TLC can  *)
(* enumerate every call sequence; the region size is chosen so that        *)
(* format() computes NumBlocks data blocks.  RAMDISK_FILENAME_LEN and the  *)
(* record layout keep their real sizes, because copy_str() does not check  *)
(* the length of a name and what it overwrites depends on them.            *)
(*                                                                         *)
(* Bytes and characters are naturals in 0..255; a C string is the sequence *)
(* of its characters without the terminating 0.                            *)
(***************************************************************************)
EXTENDS Naturals, Integers, Sequences, FiniteSets, TLC

(***************************************************************************)
(* Constants of fs_ramdisk.h, and the bounds of the model.                 *)
(***************************************************************************)
\* 1024 in fs_ramdisk.h:10; scaled down.
RAMDISK_BLOCK_SIZE == 2

\* 64 in fs_ramdisk.h:11; scaled down.
RAMDISK_MAX_FILES == 3

RAMDISK_FILENAME_LEN == 32

\* The number of data blocks format() is to find in the region.
NumBlocks == 3

\* sizeof(RAMDiskSuperblock): magic[8], eight u32 fields, reserved[476].
SuperblockSize == 8 + (8 * 4) + 476

\* sizeof(RAMDiskFileEntry): filename, start_block, size, timestamp (u32),
\* type (u8), reserved[15].  Offsets of the fields inside a record.
OffStartBlock == RAMDISK_FILENAME_LEN
OffSize       == OffStartBlock + 4
OffTimestamp  == OffSize + 4
OffType       == OffTimestamp + 4
OffReserved   == OffType + 1
EntrySize     == OffReserved + 15

(***************************************************************************)
(* Unsigned 32-bit values that can wrap are kept as two 16-bit halves: TLC *)
(* integers stop at 2^31 - 1.                                              *)
(***************************************************************************)
Half == 65536

U32Of(n) == [hi |-> (n \div Half) % Half, lo |-> n % Half]

U32Inc(c) ==
    IF c.lo = Half - 1
    THEN [hi |-> (c.hi + 1) % Half, lo |-> 0]
    ELSE [hi |-> c.hi, lo |-> c.lo + 1]

U32Dec(c) ==
    IF c.lo = 0
    THEN [hi |-> (c.hi + Half - 1) % Half, lo |-> Half - 1]
    ELSE [hi |-> c.hi, lo |-> c.lo - 1]

\* (a - b) modulo 2^32, for a and b below 2^31.
U32Sub(a, b) ==
    IF a >= b
    THEN U32Of(a - b)
    ELSE LET d == b - a
         IN  [hi |-> Half - 1 - ((d - 1) \div Half),
              lo |-> Half - 1 - ((d - 1) % Half)]

\* c / n for a u32 c and 2 <= n <= Half: with Half = q * n + r,
\* hi * Half + lo = (hi * q) * n + (hi * r + lo).
U32Div(c, n) ==
    (c.hi * (Half \div n)) + (((c.hi * (Half % n)) + c.lo) \div n)

(***************************************************************************)
(* Little-endian bytes of a u32 below 2^31, and the C string found at the  *)
(* start of a sequence of bytes (the bytes before the first 0).            *)
(***************************************************************************)
LEBytes(v) ==
    << v % 256, (v \div 256) % 256, (v \div 65536) % 256, (v \div 16777216) % 256 >>

RECURSIVE CStr(_)
CStr(bytes) ==
    IF bytes = << >> \/ Head(bytes) = 0
    THEN << >>
    ELSE << Head(bytes) >> \o CStr(Tail(bytes))


(***************************************************************************)
(* RAMDiskFS::initialize and RAMDiskFS::format: the layout of the region.  *)
(* file_table is a RAMDiskFileEntry*, so "file_table + file_table_size"    *)
(* advances by file_table_size records, not bytes.                         *)
(***************************************************************************)
DataOffset(size) ==
    LET superblock_size == SuperblockSize
        fat_size        == size \div RAMDISK_BLOCK_SIZE
        file_table_size == RAMDISK_MAX_FILES * EntrySize
    IN  superblock_size + fat_size + (file_table_size * EntrySize)

\* format(), for a region that holds the fixed structures (no wrap of the
\* unsigned subtraction).
FormatTotalBlocks(size) == (size - DataOffset(size)) \div RAMDISK_BLOCK_SIZE

\* The size of the region handed to initialize(): one in which format()
\* finds NumBlocks blocks (RAMDISK_DEFAULT_SIZE, scaled with the
\* block size and the directory).
total_size ==
    LET overhead == SuperblockSize + (RAMDISK_MAX_FILES * EntrySize * EntrySize)
        most     == 2 * (overhead + ((NumBlocks + 1) * RAMDISK_BLOCK_SIZE))
    IN  CHOOSE s \in overhead..most :
            /\ s >= DataOffset(s)
            /\ FormatTotalBlocks(s) = NumBlocks

\* A cleared directory record (format, delete_file).
ClearedEntry ==
    [filename |-> << >>, start_block |-> 0, size |-> 0, timestamp |-> 0, type |-> 0]

Slots == 0..(RAMDISK_MAX_FILES - 1)

\* A format that leaves file_count at 1.
Formatted_miscounts(data) ==
    LET total_blocks == FormatTotalBlocks(total_size)
    IN  [ total_blocks |-> total_blocks,
          free_blocks  |-> total_blocks,
          file_count   |-> U32Of(1),
          fat          |-> [i \in 0..(total_blocks - 1) |-> 0],
          file_table   |-> [i \in Slots |-> ClearedEntry],
          data_blocks  |-> data,
          owned        |-> [i \in Slots |-> {}] ]

(***************************************************************************)
(* The store's memory after format().  fat and data_blocks are indexed     *)
(* from 0; file_table[i].filename holds the characters before the first 0  *)
(* of the 32-byte name field, or all 32 when the field holds no 0.         *)
(* owned is a history variable: the blocks that the create which wrote a   *)
(* record marked used.  The data region is not touched by format().        *)
(***************************************************************************)
Formatted(data) ==
    LET total_blocks == FormatTotalBlocks(total_size)
    IN  [ total_blocks |-> total_blocks,
          free_blocks  |-> total_blocks,
          file_count   |-> U32Of(0),
          fat          |-> [i \in 0..(total_blocks - 1) |-> 0],
          file_table   |-> [i \in Slots |-> ClearedEntry],
          data_blocks  |-> data,
          owned        |-> [i \in Slots |-> {}] ]

(***************************************************************************)
(* strcmp(file_table[i].filename, filename) reads the record from its      *)
(* first byte to the first 0.  A name field that holds no 0 is followed in *)
(* memory by start_block, size and timestamp (little-endian).              *)
(***************************************************************************)
EntryString(e) ==
    IF Len(e.filename) < RAMDISK_FILENAME_LEN
    THEN e.filename
    ELSE e.filename
           \o CStr(LEBytes(e.start_block) \o LEBytes(e.size) \o LEBytes(e.timestamp))

IsLive(e) == e.filename # << >>

nullptr == 0 - 1

Lowest(S) == CHOOSE i \in S : \A j \in S : i <= j

\* A search that settles for the first live record when none has the name.
find_file_entry_first_live(file_table, filename) ==
    LET hits == { i \in Slots : /\ IsLive(file_table[i])
                                /\ EntryString(file_table[i]) = filename }
        live == { i \in Slots : IsLive(file_table[i]) }
    IN  IF hits # {} THEN Lowest(hits)
        ELSE IF live # {} THEN Lowest(live) ELSE nullptr

find_file_entry(file_table, filename) ==
    LET hits == { i \in Slots : /\ IsLive(file_table[i])
                                /\ EntryString(file_table[i]) = filename }
    IN  IF hits = {} THEN nullptr ELSE Lowest(hits)

\* A search that hands out the first slot when none is free.
find_free_file_entry_first_slot(file_table) ==
    LET free == { i \in Slots : ~IsLive(file_table[i]) }
    IN  IF free = {} THEN 0 ELSE Lowest(free)

find_free_file_entry(file_table) ==
    LET free == { i \in Slots : ~IsLive(file_table[i]) }
    IN  IF free = {} THEN nullptr ELSE Lowest(free)

\* A block count that rounds down.
calculate_blocks_needed_floor(file_size) ==
    file_size \div RAMDISK_BLOCK_SIZE

\* Sizes stay far below 2^32 - RAMDISK_BLOCK_SIZE, where the sum wraps.
calculate_blocks_needed(file_size) ==
    (file_size + RAMDISK_BLOCK_SIZE - 1) \div RAMDISK_BLOCK_SIZE


(***************************************************************************)
(* RAMDiskFS::delete_file.  The blocks freed are the blocks_needed entries *)
(* that follow start_block.  An index at or past total_blocks would fall   *)
(* outside the modelled table: DeleteInBounds states that none does.       *)
(***************************************************************************)
delete_file(d, filename) ==
    LET entry == find_file_entry(d.file_table, filename)
    IN  IF entry = nullptr
        THEN [ret |-> FALSE, at |-> 196, disk |-> d]
        ELSE
          LET e             == d.file_table[entry]
              blocks_needed == calculate_blocks_needed(e.size)
              freed         == { e.start_block + i : i \in 0..(blocks_needed - 1) }
          IN  [ ret  |-> TRUE,
                at   |-> 215,
                disk |-> [ d EXCEPT
                    !.fat         = [b \in DOMAIN d.fat |->
                                        IF b \in freed THEN 0 ELSE d.fat[b]],
                    !.file_table  = [@ EXCEPT ![entry] = ClearedEntry],
                    !.owned       = [@ EXCEPT ![entry] = {}],
                    !.file_count  = U32Dec(@),
                    !.free_blocks = @ + blocks_needed ] ]

(***************************************************************************)
(* The scan of create_file (lines 130-138): the first blocks_needed free   *)
(* indices, in increasing order; fewer when the table holds fewer.         *)
(***************************************************************************)
RECURSIVE ScanFrom(_, _, _, _)
ScanFrom(fat, total_blocks, blocks_needed, i) ==
    IF i >= total_blocks \/ blocks_needed = 0
    THEN << >>
    ELSE IF fat[i] = 0
         THEN << i >> \o ScanFrom(fat, total_blocks, blocks_needed - 1, i + 1)
         ELSE ScanFrom(fat, total_blocks, blocks_needed, i + 1)

\* A scan that starts at the second block.
ScanFreeBlocks_from_second(fat, total_blocks, blocks_needed) ==
    ScanFrom(fat, total_blocks, blocks_needed, 1)

ScanFreeBlocks(fat, total_blocks, blocks_needed) ==
    ScanFrom(fat, total_blocks, blocks_needed, 0)

(***************************************************************************)
(* copy_str(entry->filename, filename): Len(filename) + 1 bytes are        *)
(* written from the first byte of the record, whatever the length.  A name *)
(* of RAMDISK_FILENAME_LEN characters or more leaves no 0 in the name      *)
(* field; one of EntrySize characters or more runs into the name field of  *)
(* the next record.  The bytes written past the last record fall into the  *)
(* unused gap before data_blocks.  Names are at most MaxNameLen long, so   *)
(* the copy ends inside the next record's name field.                      *)
(***************************************************************************)
MaxNameLen == EntrySize + RAMDISK_FILENAME_LEN - 1

copy_str_entry(file_table, entry, filename) ==
    LET len  == Len(filename)
        own  == IF len < RAMDISK_FILENAME_LEN
                THEN filename
                ELSE SubSeq(filename, 1, RAMDISK_FILENAME_LEN)
        next == entry + 1
    IN  [i \in Slots |->
            IF i = entry
            THEN [file_table[i] EXCEPT !.filename = own]
            ELSE IF i = next /\ len >= EntrySize
                 THEN [file_table[i] EXCEPT
                          !.filename = SubSeq(filename, EntrySize + 1, len)]
                 ELSE file_table[i]]

(***************************************************************************)
(* The copy loop of create_file (lines 157-167): payload block k goes to   *)
(* the start of the k-th chosen block.  data[j] is data[j + 1] here.       *)
(***************************************************************************)
\* A copy that fills the rest of the last block with zeros.
CopyData_zero_fill(data_blocks, allocated_blocks, data, size) ==
    [p \in DOMAIN data_blocks |->
        LET b == p \div RAMDISK_BLOCK_SIZE
            o == p % RAMDISK_BLOCK_SIZE
            K == { k \in 1..Len(allocated_blocks) : allocated_blocks[k] = b }
        IN  IF K = {}
            THEN data_blocks[p]
            ELSE IF ((Lowest(K) - 1) * RAMDISK_BLOCK_SIZE) + o < size
                 THEN data[((Lowest(K) - 1) * RAMDISK_BLOCK_SIZE) + o + 1]
                 ELSE 0]

CopyData(data_blocks, allocated_blocks, data, size) ==
    [p \in DOMAIN data_blocks |->
        LET b == p \div RAMDISK_BLOCK_SIZE
            o == p % RAMDISK_BLOCK_SIZE
            K == { k \in 1..Len(allocated_blocks) :
                     /\ allocated_blocks[k] = b
                     /\ ((k - 1) * RAMDISK_BLOCK_SIZE) + o < size }
        IN  IF K = {}
            THEN data_blocks[p]
            ELSE data[((Lowest(K) - 1) * RAMDISK_BLOCK_SIZE) + o + 1]]

(***************************************************************************)
(* RAMDiskFS::create_file.  filename and data are not null.  The result     *)
(* tells the return statement taken (at, its line) and whether a record of *)
(* that name was deleted first (replaced).                                 *)
(***************************************************************************)
create_file(d, filename, data, size) ==
    IF size = 0
    THEN [ret |-> FALSE, at |-> 108, replaced |-> FALSE, disk |-> d, blocks |-> << >>]
    ELSE
      LET existing_entry == find_file_entry(d.file_table, filename)
          replaced == existing_entry # nullptr
          d1 == IF replaced THEN delete_file(d, filename).disk ELSE d
          entry            == find_free_file_entry(d1.file_table)
          blocks_needed    == calculate_blocks_needed(size)
          allocated_blocks == ScanFreeBlocks(d1.fat, d1.total_blocks, blocks_needed)
          blocks_found     == Len(allocated_blocks)
          chosen           == { allocated_blocks[k] : k \in 1..blocks_found }
          failed(line)     == [ ret |-> FALSE, at |-> line, replaced |-> replaced,
                                disk |-> d1, blocks |-> << >> ]
      IN  IF entry = nullptr
          THEN failed(120)
          ELSE IF blocks_needed > d1.free_blocks
          THEN failed(126)
          ELSE IF blocks_found < blocks_needed
          THEN failed(141)
          ELSE
            [ ret      |-> TRUE,
              at       |-> 173,
              replaced |-> replaced,
              blocks   |-> allocated_blocks,
              disk     |-> [ d1 EXCEPT
                  !.fat         = [b \in DOMAIN d1.fat |->
                                      IF b \in chosen THEN 1 ELSE d1.fat[b]],
                  !.file_table  =
                      LET named == copy_str_entry(d1.file_table, entry, filename)
                      IN  [named EXCEPT
                              ![entry].start_block = allocated_blocks[1],
                              ![entry].size        = size,
                              ![entry].timestamp   = 0,
                              ![entry].type        = 0],
                  !.data_blocks = CopyData(d1.data_blocks, allocated_blocks, data, size),
                  !.owned       = [@ EXCEPT ![entry] = chosen],
                  !.file_count  = U32Inc(@),
                  !.free_blocks = @ - blocks_needed ] ]

\* A read that wants a buffer larger than the file.
read_file_strict(d, filename, buffer, buffer_size) ==
    LET entry == find_file_entry(d.file_table, filename)
    IN  IF entry = nullptr
        THEN [ret |-> FALSE, at |-> 180, buffer |-> buffer]
        ELSE
          LET e   == d.file_table[entry]
              src == e.start_block * RAMDISK_BLOCK_SIZE
          IN  IF buffer_size <= e.size
              THEN [ret |-> FALSE, at |-> 182, buffer |-> buffer]
              ELSE [ ret    |-> TRUE,
                     at     |-> 191,
                     buffer |-> [i \in 1..buffer_size |->
                                   IF i <= e.size
                                   THEN d.data_blocks[src + i - 1]
                                   ELSE buffer[i]] ]

(***************************************************************************)
(* RAMDiskFS::read_file.  buffer is not null; it holds buffer_size bytes.  *)
(* The bytes are read from start_block on, one after the other.            *)
(***************************************************************************)
read_file(d, filename, buffer, buffer_size) ==
    LET entry == find_file_entry(d.file_table, filename)
    IN  IF entry = nullptr
        THEN [ret |-> FALSE, at |-> 180, buffer |-> buffer]
        ELSE
          LET e   == d.file_table[entry]
              src == e.start_block * RAMDISK_BLOCK_SIZE
          IN  IF buffer_size < e.size
              THEN [ret |-> FALSE, at |-> 182, buffer |-> buffer]
              ELSE [ ret    |-> TRUE,
                     at     |-> 191,
                     buffer |-> [i \in 1..buffer_size |->
                                   IF i <= e.size
                                   THEN d.data_blocks[src + i - 1]
                                   ELSE buffer[i]] ]


\* RAMDiskFS::file_exists.
file_exists(d, filename) == find_file_entry(d.file_table, filename) # nullptr

(***************************************************************************)
(* RAMDiskFS::get_file_info.  size and timestamp are not null; the         *)
(* arguments here are the values the two locations hold before the call,   *)
(* the result the values they hold after it.                               *)
(***************************************************************************)
get_file_info(d, filename, size, timestamp) ==
    LET entry == find_file_entry(d.file_table, filename)
    IN  IF entry # nullptr
        THEN [size |-> d.file_table[entry].size,
              timestamp |-> d.file_table[entry].timestamp]
        ELSE [size |-> size, timestamp |-> timestamp]

(***************************************************************************)
(* RAMDiskFS::get_file_list.  list holds max_entries records (none when    *)
(* max_entries <= 0); list[count] is list[count + 1] here.  copy_str       *)
(* copies the C string that starts at the record, which runs into          *)
(* start_block when the name field holds no 0; the bytes it writes past    *)
(* the name field of list[count] are overwritten by the assignments of     *)
(* lines 304-307.                                                          *)
(***************************************************************************)
CopiedEntry(e) ==
    LET str == EntryString(e)
    IN  [ filename    |-> IF Len(str) < RAMDISK_FILENAME_LEN
                          THEN str
                          ELSE SubSeq(str, 1, RAMDISK_FILENAME_LEN),
          start_block |-> e.start_block,
          size        |-> e.size,
          timestamp   |-> e.timestamp,
          type        |-> e.type ]

RECURSIVE ListFrom(_, _, _, _, _)
ListFrom(file_table, list, max_entries, i, count) ==
    IF i >= RAMDISK_MAX_FILES \/ count >= max_entries
    THEN [count |-> count, list |-> list]
    ELSE IF IsLive(file_table[i])
         THEN ListFrom(file_table,
                       [list EXCEPT ![count + 1] = CopiedEntry(file_table[i])],
                       max_entries, i + 1, count + 1)
         ELSE ListFrom(file_table, list, max_entries, i + 1, count)

\* A listing that starts at the second slot.
get_file_list_from_second(d, list, max_entries) ==
    ListFrom(d.file_table, list, max_entries, 1, 0)

get_file_list(d, list, max_entries) ==
    ListFrom(d.file_table, list, max_entries, 0, 0)

(***************************************************************************)
(* The kernel's allocator (memory.cpp).  Addresses and sizes are u32       *)
(* values in two halves; every sum is taken modulo 2^32, as the code's     *)
(* unsigned arithmetic does.                                               *)
(***************************************************************************)
U32Add(a, b) ==
    LET lo == a.lo + b.lo
    IN  [hi |-> (a.hi + b.hi + (lo \div Half)) % Half, lo |-> lo % Half]

U32Greater(a, b) == a.hi > b.hi \/ (a.hi = b.hi /\ a.lo > b.lo)

\* (size + 3) & ~3
AlignUp(size) ==
    LET s == U32Add(size, U32Of(3))
    IN  [s EXCEPT !.lo = @ - (@ % 4)]

memory_start_addr == 1048576

memory_size == 3145728

\* SimpleAllocator::initialize(start, size)
allocator_initialize(start, size) ==
    [memory_start |-> start, current_ptr |-> start, total_memory |-> size]

initialize_memory ==
    allocator_initialize(U32Of(memory_start_addr), U32Of(memory_size))

NullAddress == U32Of(0)

\* SimpleAllocator::allocate(size): the address returned (0 is nullptr),
\* the rounded size, and the allocator after the call.
allocate(a, size) ==
    LET rounded == AlignUp(size)
        end     == U32Add(a.current_ptr, rounded)
    IN  IF U32Greater(end, U32Add(a.memory_start, a.total_memory))
        THEN [ret |-> NullAddress, size |-> rounded, allocator |-> a]
        ELSE [ret |-> a.current_ptr, size |-> rounded,
              allocator |-> [a EXCEPT !.current_ptr = end]]

(***************************************************************************)
(* The inputs.  Names: the empty string, names that fit the name field,    *)
(* and names that do not: one that fills the field and leaves no           *)
(* terminator in it, one whose terminator is the first byte of the next    *)
(* record, and one whose last character is.                                *)
(***************************************************************************)
Fill(n) == [i \in 1..n |-> 1]

NameEmpty == << >>
NameA     == << 1 >>
NameB     == << 2 >>
NameC     == << 3 >>
NameFull  == Fill(RAMDISK_FILENAME_LEN)
NameOver  == Fill(EntrySize)
NameOverA == Fill(EntrySize) \o NameA

Names == { NameEmpty, NameA, NameB, NameOver, NameOverA }

\* Payload lengths: none, one full block, one block and a byte.
Sizes == { 0, RAMDISK_BLOCK_SIZE, RAMDISK_BLOCK_SIZE + 1 }

\* The payload a create is called with: size bytes, each telling its tag
\* and its offset; tag 0 is a payload of zero bytes.
Payload(tag, size) == [j \in 1..size |-> tag * (16 + j)]

\* A caller's buffer before a read.
FreshBuffer(buffer_size) == [i \in 1..buffer_size |-> 0]

(***************************************************************************)
(* calculate_blocks_needed and create_file over the whole range of a u32   *)
(* size, kept in two halves.  The sum file_size + RAMDISK_BLOCK_SIZE - 1   *)
(* is taken modulo 2^32.  When it wraps blocks_needed is 0: the array      *)
(* allocated_blocks has no element, and allocated_blocks[0] (line 151)     *)
(* reads whatever the stack holds there (garbage).  The size kept in the   *)
(* record it fills is in two halves as well.                               *)
(***************************************************************************)
calculate_blocks_needed_u32(file_size) ==
    U32Div(U32Add(file_size, U32Of(RAMDISK_BLOCK_SIZE - 1)), RAMDISK_BLOCK_SIZE)

create_file_u32(d, filename, size, garbage) ==
    IF size = U32Of(0)
    THEN [ret |-> FALSE, at |-> 108, disk |-> d, blocks_needed |-> 0]
    ELSE
      LET existing_entry == find_file_entry(d.file_table, filename)
          d1 == IF existing_entry # nullptr
                THEN delete_file(d, filename).disk ELSE d
          entry            == find_free_file_entry(d1.file_table)
          blocks_needed    == calculate_blocks_needed_u32(size)
          allocated_blocks == ScanFreeBlocks(d1.fat, d1.total_blocks, blocks_needed)
          blocks_found     == Len(allocated_blocks)
          chosen           == { allocated_blocks[k] : k \in 1..blocks_found }
          n                == (size.hi * Half) + size.lo
          failed(line)     == [ ret |-> FALSE, at |-> line, disk |-> d1,
                                blocks_needed |-> blocks_needed ]
      IN  IF entry = nullptr
          THEN failed(120)
          ELSE IF blocks_needed > d1.free_blocks
          THEN failed(126)
          ELSE IF blocks_found < blocks_needed
          THEN failed(141)
          ELSE
            [ ret           |-> TRUE,
              at            |-> 173,
              blocks_needed |-> blocks_needed,
              disk          |-> [ d1 EXCEPT
                  !.fat         = [b \in DOMAIN d1.fat |->
                                      IF b \in chosen THEN 1 ELSE d1.fat[b]],
                  !.file_table  =
                      LET named == copy_str_entry(d1.file_table, entry, filename)
                      IN  [named EXCEPT
                              ![entry].start_block =
                                  IF blocks_needed = 0 THEN garbage
                                                       ELSE allocated_blocks[1],
                              ![entry].size        = size,
                              ![entry].timestamp   = 0,
                              ![entry].type        = 0],
                  !.data_blocks =
                      IF blocks_needed = 0
                      THEN d1.data_blocks
                      ELSE CopyData(d1.data_blocks, allocated_blocks,
                                    Payload(0, n), n),
                  !.owned       = [@ EXCEPT ![entry] = chosen],
                  !.file_count  = U32Inc(@),
                  !.free_blocks = @ - blocks_needed ] ]

(***************************************************************************)
(* State: the global store g_ramdisk, the kernel's allocator g_allocator,  *)
(* the position of every execution context inside create_file (contexts),  *)
(* and the last call with its result (a history variable: the claims speak *)
(* of what a call returned).  The arguments of the call are kept only      *)
(* where detail is asked for.                                              *)
(***************************************************************************)
VARIABLES g_ramdisk, last, g_allocator, contexts

vars == << g_ramdisk, last, g_allocator, contexts >>

\* The execution contexts that call into the store, and where each of them
\* is inside create_file with the locals it holds there.  The kernel has
\* one context: every call runs to its end before the next one starts
\* (atomic), and between calls every context is idle.
Contexts == { "first", "second" }

Idle ==
    [ pc |-> "idle", filename |-> << >>, size |-> 0, replaced |-> FALSE,
      entry |-> nullptr, blocks_needed |-> 0, allocated_blocks |-> << >> ]

Quiet(atomic) ==
    [ atomic |-> atomic, overwrote |-> FALSE, calls |-> 0,
      call |-> [c \in Contexts |-> Idle] ]

NoCall ==
    [ op |-> "initialize", ret |-> TRUE, at |-> 71, replaced |-> FALSE,
      filename |-> << >>, size |-> 0, tag |-> 0, blocks |-> << >>,
      buffer_size |-> 0, buffer |-> << >>,
      timestamp |-> 0, count |-> 0, list |-> << >>,
      request |-> U32Of(0), allocated |-> U32Of(0) ]

\* The cap on file_count in the guards: past it only format() is explored.
CountInRange ==
    /\ g_ramdisk.file_count.hi = 0
    /\ g_ramdisk.file_count.lo <= RAMDISK_MAX_FILES + 1

\* The kernel's start: initialize_memory(), then fs_initialize(), which is
\* initialize(0x200000, size) and ends in format().
Init ==
    /\ g_ramdisk = Formatted([p \in 0..((NumBlocks * RAMDISK_BLOCK_SIZE) - 1) |-> 0])
    /\ last = NoCall
    /\ g_allocator = initialize_memory
    /\ contexts = Quiet(TRUE)

\* format() called again; replaced tells whether it cleared a live record.
Format ==
    /\ UNCHANGED << g_allocator, contexts >>
    /\ g_ramdisk' = Formatted(g_ramdisk.data_blocks)
    /\ last' = [NoCall EXCEPT
                   !.op = "format",
                   !.replaced = \E i \in Slots : IsLive(g_ramdisk.file_table[i])]

Create(filename, tag, size, detail) ==
    \E r \in { create_file(g_ramdisk, filename, Payload(tag, size), size) } :
    LET l == [NoCall EXCEPT !.op = "create", !.ret = r.ret, !.at = r.at,
                            !.replaced = r.replaced]
    IN  /\ CountInRange
        /\ UNCHANGED << g_allocator, contexts >>
        /\ g_ramdisk' = r.disk
        /\ last' = IF detail
                   THEN [l EXCEPT !.filename = filename, !.size = size,
                                  !.tag = tag, !.blocks = r.blocks]
                   ELSE l

Delete(filename, detail) ==
    \E r \in { delete_file(g_ramdisk, filename) } :
    LET l == [NoCall EXCEPT !.op = "delete", !.ret = r.ret, !.at = r.at]
    IN  /\ CountInRange
        /\ UNCHANGED << g_allocator, contexts >>
        /\ g_ramdisk' = r.disk
        /\ last' = IF detail THEN [l EXCEPT !.filename = filename] ELSE l

\* A read that consumes the file it has read.
Read_consuming(filename, buffer_size) ==
    \E r \in { read_file(g_ramdisk, filename, FreshBuffer(buffer_size), buffer_size) } :
        /\ UNCHANGED << g_allocator, contexts >>
        /\ g_ramdisk' = IF r.ret THEN delete_file(g_ramdisk, filename).disk
                                 ELSE g_ramdisk
        /\ last' = [NoCall EXCEPT !.op = "read", !.ret = r.ret, !.at = r.at,
                                  !.filename = filename,
                                  !.buffer_size = buffer_size,
                                  !.buffer = r.buffer]

Read(filename, buffer_size) ==
    \E r \in { read_file(g_ramdisk, filename, FreshBuffer(buffer_size), buffer_size) } :
        /\ UNCHANGED << g_allocator, contexts >>
        /\ g_ramdisk' = g_ramdisk
        /\ last' = [NoCall EXCEPT !.op = "read", !.ret = r.ret, !.at = r.at,
                                  !.filename = filename,
                                  !.buffer_size = buffer_size,
                                  !.buffer = r.buffer]

(***************************************************************************)
(* Spec: every sequence of format, create and delete calls, with payloads  *)
(* of zero bytes (the code never looks at a payload byte).                 *)
(***************************************************************************)
Next ==
    \/ Format
    \/ \E filename \in Names, size \in Sizes : Create(filename, 0, size, FALSE)
    \/ \E filename \in Names : Delete(filename, FALSE)

Spec == Init /\ [][Next]_vars

(***************************************************************************)
(* SpecData: the same calls and read, with payloads that differ, and with  *)
(* the arguments of each call kept in last.                                *)
(***************************************************************************)
NumTags == 2

Tags == 1..NumTags

DataNames == { NameEmpty, NameA, NameB }

NextData ==
    \/ \E filename \in DataNames, tag \in Tags, size \in Sizes :
           Create(filename, tag, size, TRUE)
    \/ \E filename \in DataNames : Delete(filename, TRUE)
    \/ \E filename \in DataNames, buffer_size \in Sizes : Read(filename, buffer_size)

SpecData == Init /\ [][NextData]_vars


(***************************************************************************)
(* SpecRegression: the regression scenario of the specification, call by   *)
(* call from a fresh store: create two one-block files, delete the first,  *)
(* create a two-block file, read it.  Each call is enabled by the call     *)
(* before it.                                                              *)
(***************************************************************************)
OneBlockSizes == 1..RAMDISK_BLOCK_SIZE

TwoBlockSizes == (RAMDISK_BLOCK_SIZE + 1)..(2 * RAMDISK_BLOCK_SIZE)

\* Buffer capacities: from the smallest two-block payload to the whole
\* data region.
RegBufferSizes == (RAMDISK_BLOCK_SIZE + 1)..(NumBlocks * RAMDISK_BLOCK_SIZE)

RegCreateA ==
    /\ last.op = "initialize"
    /\ \E tag \in Tags, size \in OneBlockSizes : Create(NameA, tag, size, TRUE)

RegCreateB ==
    /\ last.op = "create" /\ last.filename = NameA
    /\ \E tag \in Tags, size \in OneBlockSizes : Create(NameB, tag, size, TRUE)

RegDeleteA ==
    /\ last.op = "create" /\ last.filename = NameB
    /\ Delete(NameA, TRUE)

RegCreateC ==
    /\ last.op = "delete"
    /\ \E tag \in Tags, size \in TwoBlockSizes : Create(NameC, tag, size, TRUE)

RegReadC ==
    /\ last.op = "create" /\ last.filename = NameC
    /\ \E buffer_size \in RegBufferSizes : Read(NameC, buffer_size)

NextRegression ==
    \/ RegCreateA
    \/ RegCreateB
    \/ RegDeleteA
    \/ RegCreateC
    \/ RegReadC

SpecRegression == Init /\ [][NextRegression]_vars

(***************************************************************************)
(* SpecCalls: every call of the interface - format, create, delete, read,  *)
(* list, stat, exists - with payloads of zero bytes.  Files are created    *)
(* under a short name and under one too long for a record; the lookups are *)
(* also made with the empty name.                                          *)
(***************************************************************************)
CreatedNames == { NameA, NameOverA }

CallNames == { NameEmpty } \cup CreatedNames

\* Capacities asked of a listing: from below 0 to past the directory.
MaxEntries == (0 - 1)..(RAMDISK_MAX_FILES + 1)

\* What a caller's output locations hold before a call.
PriorValues == { 0, 1 }

\* A caller's buffer and list with earlier contents in them.
StaleBuffer(buffer_size) == [i \in 1..buffer_size |-> 255]

StaleEntry ==
    [filename |-> NameB, start_block |-> 1, size |-> 1, timestamp |-> 1, type |-> 1]

StaleList(max_entries) == [k \in 1..max_entries |-> StaleEntry]

List(max_entries) ==
    \E r \in { get_file_list(g_ramdisk, StaleList(max_entries), max_entries) } :
        /\ UNCHANGED << g_allocator, contexts >>
        /\ g_ramdisk' = g_ramdisk
        /\ last' = [NoCall EXCEPT !.op = "list", !.at = 311,
                                  !.count = r.count, !.list = r.list]

Stat(filename, size, timestamp) ==
    \E r \in { get_file_info(g_ramdisk, filename, size, timestamp) } :
        /\ UNCHANGED << g_allocator, contexts >>
        /\ g_ramdisk' = g_ramdisk
        /\ last' = [NoCall EXCEPT !.op = "stat", !.at = 257,
                                  !.filename = filename,
                                  !.size = r.size, !.timestamp = r.timestamp]

\* fs_file_exists(filename): file_exists, which writes nothing.
Exists(filename) ==
    \E r \in { file_exists(g_ramdisk, filename) } :
        /\ UNCHANGED << g_allocator, contexts >>
        /\ g_ramdisk' = g_ramdisk
        /\ last' = [NoCall EXCEPT !.op = "exists", !.ret = r, !.at = 219,
                                  !.filename = filename]

NextCalls ==
    \/ Format
    \/ \E filename \in CreatedNames, size \in Sizes :
           Create(filename, 0, size, FALSE)
    \/ \E filename \in CallNames : Delete(filename, FALSE)
    \/ \E filename \in CallNames, buffer_size \in Sizes : Read(filename, buffer_size)
    \/ \E max_entries \in MaxEntries : List(max_entries)
    \/ \E filename \in CallNames, prior \in PriorValues :
           Stat(filename, prior, prior)
    \/ \E filename \in CallNames : Exists(filename)

SpecCalls == Init /\ [][NextCalls]_vars

(***************************************************************************)
(* SpecLayout: initialize(memory_address, size) called with regions of     *)
(* other sizes.  Here g_ramdisk holds total_size and the descriptor fields *)
(* that format() writes (lines 50-55).  When size is below the offset of   *)
(* data_blocks the unsigned subtraction of line 51 wraps, and the loop of  *)
(* lines 57-59 writes total_blocks bytes from fat on, far past the region: *)
(* the call either comes back or never does.                               *)
(***************************************************************************)
RegionStep == 256

NumRegions == 128

\* Region sizes: multiples of RegionStep, and the sizes around the one at
\* which the first data block fits.
RegionSizes ==
    { k * RegionStep : k \in 0..NumRegions }
      \cup ((total_size - (2 * NumBlocks * RAMDISK_BLOCK_SIZE))..total_size)

\* total_blocks as format() computes it (line 51), modulo 2^32.
format_total_blocks(size) ==
    U32Div(U32Sub(size, DataOffset(size)), RAMDISK_BLOCK_SIZE)

initialize(size) ==
    LET total_blocks == format_total_blocks(size)
    IN  [ total_size   |-> size,
          total_blocks |-> total_blocks,
          free_blocks  |-> total_blocks,
          file_count   |-> U32Of(0) ]

\* The writes of format() stay inside the region.
FormatInRegion(size) == size >= DataOffset(size)

Initialize(size) ==
    /\ UNCHANGED << g_allocator, contexts >>
    /\ g_ramdisk' = initialize(size)
    /\ \/ last' = [NoCall EXCEPT !.size = size]
       \/ /\ ~FormatInRegion(size)
          /\ last' = [NoCall EXCEPT !.size = size, !.ret = FALSE, !.at = 57]

InitLayout ==
    /\ g_ramdisk = initialize(total_size)
    /\ last = [NoCall EXCEPT !.size = total_size]
    /\ g_allocator = initialize_memory
    /\ contexts = Quiet(TRUE)

NextLayout == \E size \in RegionSizes : Initialize(size)

SpecLayout == InitLayout /\ [][NextLayout]_vars

(***************************************************************************)
(* SpecMemory: after initialize_memory() and fs_initialize(), every        *)
(* sequence of kmalloc and kfree calls.  The sizes asked for are whole     *)
(* chunks and up to three bytes less (which the rounding makes whole),     *)
(* nothing, and sizes within a chunk of 2^32, where the sums wrap.  The    *)
(* addresses are the real ones: the store's region starts at ramdisk_addr  *)
(* and is RAMDISK_DEFAULT_SIZE bytes long.                                 *)
(***************************************************************************)
ramdisk_addr == 2097152

RAMDISK_DEFAULT_SIZE == 1048576

ChunkWords == 65536

MaxChunks == 4

Chunk == 4 * ChunkWords

AllocSizes ==
    { U32Sub(k * Chunk, j) : k \in 0..MaxChunks, j \in 0..3 }
        \cup { U32Sub(0, Chunk) }

\* kmalloc(size)
Kmalloc(size) ==
    \E r \in { allocate(g_allocator, size) } :
        /\ g_allocator' = r.allocator
        /\ last' = [NoCall EXCEPT !.op = "kmalloc", !.ret = (r.ret # NullAddress),
                                  !.at = IF r.ret = NullAddress THEN 22 ELSE 27,
                                  !.request = size, !.allocated = r.ret]
        /\ UNCHANGED << g_ramdisk, contexts >>

\* kfree(ptr), of the address the last kmalloc returned: nothing is done.
Kfree ==
    /\ last.op = "kmalloc"
    /\ last' = [NoCall EXCEPT !.op = "kfree", !.at = 125,
                              !.allocated = last.allocated]
    /\ UNCHANGED << g_ramdisk, g_allocator, contexts >>

NextMemory ==
    \/ \E size \in AllocSizes : Kmalloc(size)
    \/ Kfree

SpecMemory == Init /\ [][NextMemory]_vars

(***************************************************************************)
(* SpecSizes: one create on the store as fs_initialize() leaves it, for    *)
(* payload lengths from the whole range of a u32: the smallest, those      *)
(* around 2^31, and the largest.  The length is drawn at the start         *)
(* (last.request); last.count is the blocks_needed the create computed.    *)
(***************************************************************************)
NumWide == 32

WideSizes ==
    { U32Of(n) : n \in 0..NumWide }
        \cup { U32Sub(0, j) : j \in 1..NumWide }
        \cup { U32Sub(Half * (Half \div 4), j) : j \in 0..1 }
        \cup { [hi |-> Half \div 2, lo |-> j] : j \in 0..1 }

\* What allocated_blocks[0] may hold when the array has no element.
GarbageBlocks == 0..NumBlocks

InitSizes ==
    /\ g_ramdisk = Formatted([p \in 0..((NumBlocks * RAMDISK_BLOCK_SIZE) - 1) |-> 0])
    /\ \E size \in WideSizes : last = [NoCall EXCEPT !.request = size]
    /\ g_allocator = initialize_memory
    /\ contexts = Quiet(TRUE)

CreateWide ==
    /\ last.op = "initialize"
    /\ \E garbage \in GarbageBlocks :
       \E r \in { create_file_u32(g_ramdisk, NameA, last.request, garbage) } :
          /\ g_ramdisk' = r.disk
          /\ last' = [last EXCEPT !.op = "create", !.ret = r.ret, !.at = r.at,
                                  !.count = r.blocks_needed]
    /\ UNCHANGED << g_allocator, contexts >>

NextSizes == CreateWide

SpecSizes == InitSizes /\ [][NextSizes]_vars

(***************************************************************************)
(* SpecRoomy: create and delete on a store whose region holds more blocks  *)
(* than the directory has records, as the real one does (1 MB of 1 KB      *)
(* blocks for 64 records): initialize() called with a larger size, so that *)
(* format() finds RoomyBlocks blocks.  Files are created under the empty   *)
(* name and three short ones, with one or two blocks of zero bytes.        *)
(***************************************************************************)
RoomyBlocks == RAMDISK_MAX_FILES + 2

RoomyStore ==
    [ Formatted([p \in 0..((RoomyBlocks * RAMDISK_BLOCK_SIZE) - 1) |-> 0]) EXCEPT
          !.total_blocks = RoomyBlocks,
          !.free_blocks  = RoomyBlocks,
          !.fat          = [i \in 0..(RoomyBlocks - 1) |-> 0] ]

InitRoomy ==
    /\ g_ramdisk = RoomyStore
    /\ last = NoCall
    /\ g_allocator = initialize_memory
    /\ contexts = Quiet(TRUE)

RoomyNames == { NameEmpty, NameA, NameB, NameC }

NextRoomy ==
    \/ \E filename \in RoomyNames, size \in Sizes \ {0} :
           Create(filename, 0, size, FALSE)
    \/ \E filename \in RoomyNames : Delete(filename, FALSE)

SpecRoomy == InitRoomy /\ [][NextRoomy]_vars

(***************************************************************************)
(* SpecContexts: create_file called from two execution contexts.  A call   *)
(* is taken in the steps the code makes: the argument checks, the delete   *)
(* of a file of the same name, the search of a free record and the space   *)
(* check (lines 108-127); the scan of the table (130-142); the marking of  *)
(* the chosen entries (145-147); the writing of the record and the payload *)
(* (150-167); the update of the counters (170-173).  Each step reads and   *)
(* writes the store as it is when the step is taken.  When contexts.atomic *)
(* holds a call starts only while no other call is under way, so that the  *)
(* steps of two calls never interleave; otherwise any context may take its *)
(* next step at any time.  contexts.overwrote tells whether some call so   *)
(* far has deleted a file of its name, contexts.calls how many calls have  *)
(* been started: at most MaxCalls are.  A store whose free_blocks has      *)
(* wrapped below 0 is not explored further.                                *)
(***************************************************************************)
MaxCalls == 4

ContextNames == { NameA, NameB, NameC }

InitContexts ==
    /\ g_ramdisk = Formatted([p \in 0..((NumBlocks * RAMDISK_BLOCK_SIZE) - 1) |-> 0])
    /\ last = NoCall
    /\ g_allocator = initialize_memory
    /\ contexts \in { Quiet(atomic) : atomic \in BOOLEAN }

OthersIdle(c) ==
    \A o \in Contexts \ {c} : contexts.call[o].pc = "idle"

Returned(c, ret, line, replaced) ==
    /\ contexts' = [contexts EXCEPT
           !.call[c]   = Idle,
           !.overwrote = @ \/ replaced,
           !.calls     = IF contexts.call[c].pc = "idle" THEN @ + 1 ELSE @]
    /\ last' = [NoCall EXCEPT !.op = "create", !.ret = ret, !.at = line,
                              !.replaced = replaced]

\* Lines 106-127.
Enter(c, filename, size) ==
    LET existing_entry == find_file_entry(g_ramdisk.file_table, filename)
        replaced       == existing_entry # nullptr
        d1             == IF replaced
                          THEN delete_file(g_ramdisk, filename).disk
                          ELSE g_ramdisk
        entry          == find_free_file_entry(d1.file_table)
        blocks_needed  == calculate_blocks_needed(size)
    IN  /\ contexts.call[c].pc = "idle"
        /\ contexts.atomic => OthersIdle(c)
        /\ contexts.calls < MaxCalls
        /\ CountInRange
        /\ g_ramdisk.free_blocks >= 0
        /\ g_ramdisk' = d1
        /\ UNCHANGED g_allocator
        /\ IF entry = nullptr
           THEN Returned(c, FALSE, 120, replaced)
           ELSE IF blocks_needed > d1.free_blocks
           THEN Returned(c, FALSE, 126, replaced)
           ELSE /\ contexts' = [contexts EXCEPT
                       !.overwrote = @ \/ replaced,
                       !.calls = @ + 1,
                       !.call[c] = [Idle EXCEPT
                           !.pc = "scan", !.filename = filename, !.size = size,
                           !.replaced = replaced, !.entry = entry,
                           !.blocks_needed = blocks_needed]]
                /\ UNCHANGED last

\* Lines 130-142.
Scan(c) ==
    LET call == contexts.call[c]
        allocated_blocks == ScanFreeBlocks(g_ramdisk.fat, g_ramdisk.total_blocks,
                                           call.blocks_needed)
    IN  /\ call.pc = "scan"
        /\ UNCHANGED << g_ramdisk, g_allocator >>
        /\ IF Len(allocated_blocks) < call.blocks_needed
           THEN Returned(c, FALSE, 141, call.replaced)
           ELSE /\ contexts' = [contexts EXCEPT
                       !.call[c].pc = "mark",
                       !.call[c].allocated_blocks = allocated_blocks]
                /\ UNCHANGED last

Chosen(call) ==
    { call.allocated_blocks[k] : k \in 1..Len(call.allocated_blocks) }

\* Lines 145-147.
Mark(c) ==
    LET call == contexts.call[c]
    IN  /\ call.pc = "mark"
        /\ g_ramdisk' = [g_ramdisk EXCEPT
               !.fat = [b \in DOMAIN g_ramdisk.fat |->
                           IF b \in Chosen(call) THEN 1 ELSE g_ramdisk.fat[b]]]
        /\ contexts' = [contexts EXCEPT !.call[c].pc = "write"]
        /\ UNCHANGED << last, g_allocator >>

\* Lines 150-167.
Write(c) ==
    LET call == contexts.call[c]
    IN  /\ call.pc = "write"
        /\ g_ramdisk' = [g_ramdisk EXCEPT
               !.file_table =
                   LET named == copy_str_entry(g_ramdisk.file_table, call.entry,
                                               call.filename)
                   IN  [named EXCEPT
                           ![call.entry].start_block = call.allocated_blocks[1],
                           ![call.entry].size        = call.size,
                           ![call.entry].timestamp   = 0,
                           ![call.entry].type        = 0],
               !.data_blocks = CopyData(g_ramdisk.data_blocks, call.allocated_blocks,
                                        Payload(0, call.size), call.size),
               !.owned = [@ EXCEPT ![call.entry] = Chosen(call)]]
        /\ contexts' = [contexts EXCEPT !.call[c].pc = "count"]
        /\ UNCHANGED << last, g_allocator >>

\* Lines 170-173.
Count(c) ==
    LET call == contexts.call[c]
    IN  /\ call.pc = "count"
        /\ g_ramdisk' = [g_ramdisk EXCEPT
               !.file_count  = U32Inc(@),
               !.free_blocks = @ - call.blocks_needed]
        /\ Returned(c, TRUE, 173, call.replaced)
        /\ UNCHANGED g_allocator

NextContexts ==
    \E c \in Contexts :
        \/ \E filename \in ContextNames, size \in Sizes \ {0} : Enter(c, filename, size)
        \/ Scan(c)
        \/ Mark(c)
        \/ Write(c)
        \/ Count(c)

SpecContexts == InitContexts /\ [][NextContexts]_vars

(***************************************************************************)
(* Vocabulary of the claims.                                               *)
(***************************************************************************)
LiveSlots == { i \in Slots : IsLive(g_ramdisk.file_table[i]) }

Blocks == 0..(g_ramdisk.total_blocks - 1)

\* ceil(a / b), without the code's addition.
CeilDiv(a, b) == IF a % b = 0 THEN a \div b ELSE (a \div b) + 1

\* The entries delete_file and read_file walk lie inside the table.
DeleteInBounds ==
    \A i \in Slots :
        IsLive(g_ramdisk.file_table[i]) =>
            g_ramdisk.file_table[i].start_block
              + calculate_blocks_needed(g_ramdisk.file_table[i].size)
                <= g_ramdisk.total_blocks

BlocksOfRecord(i) == CeilDiv(g_ramdisk.file_table[i].size, RAMDISK_BLOCK_SIZE)

RECURSIVE SumBlocks(_)
SumBlocks(S) ==
    IF S = {}
    THEN 0
    ELSE LET i == Lowest(S) IN BlocksOfRecord(i) + SumBlocks(S \ {i})

\* The name of a record: the C string that starts at its first byte.
NameOf(i) == EntryString(g_ramdisk.file_table[i])

(***************************************************************************)
(* C1.  Space accounting: in every state reachable by create and delete    *)
(* calls, free_blocks plus the sum over the live records of                *)
(* ceil(size / block_size) equals total_blocks.                            *)
(* Violated: create("" , data, n) passes the argument check, takes blocks  *)
(* and leaves a record with an empty name, so no live record accounts for  *)
(* the blocks taken.                                                       *)
(***************************************************************************)
C1_SpaceAccounting ==
    g_ramdisk.free_blocks + SumBlocks(LiveSlots) = g_ramdisk.total_blocks

(***************************************************************************)
(* C2.  free_blocks equals the number of allocation-table entries in       *)
(* [0, total_blocks) whose value is 0.                                     *)
(* Violated: delete_file frees the blocks_needed entries that follow       *)
(* start_block, which are not the blocks a first-fit create chose once the *)
(* table is fragmented.                                                    *)
(***************************************************************************)
C2_FreeBlocksMatchTable ==
    g_ramdisk.free_blocks = Cardinality({ b \in Blocks : g_ramdisk.fat[b] = 0 })

(***************************************************************************)
(* C3.  Count accounting: file_count equals the number of directory        *)
(* records whose name is not empty, whatever the arguments of the calls.   *)
(* Violated: create("", data, n) increments file_count and writes an empty *)
(* name.                                                                   *)
(***************************************************************************)
C3_CountAccounting ==
    g_ramdisk.file_count = U32Of(Cardinality(LiveSlots))

(***************************************************************************)
(* C5.  For every block i < total_blocks, the allocation-table entry i is  *)
(* 1 if and only if i is in the ownership set of some live record.         *)
(***************************************************************************)
C5_TableMatchesOwnership ==
    \A b \in Blocks :
        g_ramdisk.fat[b] = 1 <=> \E i \in LiveSlots : b \in g_ramdisk.owned[i]

(***************************************************************************)
(* C6.  No block is in the ownership set of two different live records.    *)
(***************************************************************************)
C6_SingleOwner ==
    \A i, j \in LiveSlots :
        i # j => g_ramdisk.owned[i] \cap g_ramdisk.owned[j] = {}


(***************************************************************************)
(* C4.  Uniqueness: no two live records have the same name; a successful   *)
(* create with a name that already exists leaves exactly one live record   *)
(* with that name, holding the new size, and leaves file_count unchanged.  *)
(* Violated: copy_str does not check the length of the name, and a name of *)
(* sizeof(RAMDiskFileEntry) characters or more writes its tail into the    *)
(* name field of the next record.                                          *)
(***************************************************************************)
NamesUnique ==
    \A i, j \in LiveSlots : i # j => NameOf(i) # NameOf(j)

ReplacesNeverDuplicates ==
    \A filename \in Names, size \in Sizes :
        ( /\ find_file_entry(g_ramdisk.file_table, filename) # nullptr
          /\ Create(filename, 0, size, FALSE)
          /\ last'.ret )
        => /\ Cardinality({ i \in Slots :
                  /\ IsLive(g_ramdisk'.file_table[i])
                  /\ EntryString(g_ramdisk'.file_table[i]) = filename
                  /\ g_ramdisk'.file_table[i].size = size }) = 1
           /\ Cardinality({ i \in Slots :
                  /\ IsLive(g_ramdisk'.file_table[i])
                  /\ EntryString(g_ramdisk'.file_table[i]) = filename }) = 1
           /\ g_ramdisk'.file_count = g_ramdisk.file_count

C4_Uniqueness == []NamesUnique /\ [][ReplacesNeverDuplicates]_vars

(***************************************************************************)
(* C7.  Round trip, contiguous case: if create(name, data, size) succeeds  *)
(* and the blocks it chose are numerically contiguous, an immediately      *)
(* following read(name, buffer, capacity) with capacity >= size returns    *)
(* true and fills buffer[0..size) with data[0..size).                      *)
(* Violated: create("", data, size) succeeds, and no read finds the file.  *)
(***************************************************************************)
Contiguous(blocks) ==
    \A k \in 1..(Len(blocks) - 1) : blocks[k + 1] = blocks[k] + 1

ReadFollowsCreate ==
    /\ last.op = "create"
    /\ last'.op = "read"
    /\ last'.filename = last.filename

ReadReturnsPayload ==
    /\ last'.ret
    /\ SubSeq(last'.buffer, 1, last.size) = Payload(last.tag, last.size)

C7_RoundTripContiguous ==
    [][ ( /\ ReadFollowsCreate
          /\ last.ret
          /\ Contiguous(last.blocks)
          /\ last'.buffer_size >= last.size )
        => ReadReturnsPayload ]_vars

(***************************************************************************)
(* C8.  Regression scenario: from a fresh store, create two one-block      *)
(* files A and B, delete A, create a file C that needs two blocks; read(C) *)
(* then returns exactly the bytes that were passed to create(C).           *)
(* Violated: first-fit gives C the blocks 0 and 2, and read_file copies    *)
(* size bytes from block 0 on, so the second block read is B's.            *)
(***************************************************************************)
C8_RegressionRead ==
    [][ ( /\ ReadFollowsCreate
          /\ last.filename = NameC
          /\ last'.buffer_size >= last.size )
        => ReadReturnsPayload ]_vars

(***************************************************************************)
(* C9.  InsufficientSpace: a create whose payload needs more blocks than   *)
(* free_blocks holds at the time of the call returns false and leaves the  *)
(* allocation table, every directory record, file_count and free_blocks    *)
(* unchanged, whether or not the name already exists.                      *)
(* The claim is stated of every reachable state and every call made in it. *)
(* C9_Original fails for a name that exists, whose record create_file      *)
(* deletes before it checks the space.  C9_Amended is the claim for a name *)
(* that no live record has.                                                *)
(***************************************************************************)
\* The call create_file(filename, data, size) made in the current state
\* returns false and leaves the store as it is.
CreateFailsCleanly(filename, size) ==
    LET r == create_file(g_ramdisk, filename, Payload(0, size), size)
    IN  /\ ~r.ret
        /\ r.disk.fat = g_ramdisk.fat
        /\ r.disk.file_table = g_ramdisk.file_table
        /\ r.disk.file_count = g_ramdisk.file_count
        /\ r.disk.free_blocks = g_ramdisk.free_blocks

NeedsMoreThanFree(size) ==
    CeilDiv(size, RAMDISK_BLOCK_SIZE) > g_ramdisk.free_blocks

C10_DirectoryFull ==
    \A filename \in Names, size \in Sizes :
        ( /\ LiveSlots = Slots
          /\ \A i \in Slots : NameOf(i) # filename )
        => CreateFailsCleanly(filename, size)

\* A create of a new name has returned at the directory check, every slot
\* being live and a block being free.
C10_Witness ==
    /\ last.op = "create"
    /\ last.at = 120
    /\ ~last.replaced
    /\ LiveSlots = Slots
    /\ g_ramdisk.free_blocks > 0

(***************************************************************************)
(* C11.  Create/delete restore: in any reachable state, a successful       *)
(* create of a name not previously present with a payload of s bytes       *)
(* raises file_count by exactly 1 and lowers free_blocks by exactly        *)
(* ceil(s / block_size); an immediately following delete of that name      *)
(* returns file_count and free_blocks to their pre-create values.          *)
(* Violated: create("", data, s) succeeds, and delete("") finds no record  *)
(* to delete, so the counters are not restored.                            *)
(***************************************************************************)
CreateThenDeleteRestores(filename, size) ==
    LET c == create_file(g_ramdisk, filename, Payload(0, size), size)
        x == delete_file(c.disk, filename)
    IN  c.ret =>
          /\ c.disk.file_count = U32Inc(g_ramdisk.file_count)
          /\ c.disk.free_blocks
               = g_ramdisk.free_blocks - CeilDiv(size, RAMDISK_BLOCK_SIZE)
          /\ x.disk.file_count = g_ramdisk.file_count
          /\ x.disk.free_blocks = g_ramdisk.free_blocks

C11_CreateDeleteRestore ==
    \A filename \in Names, size \in Sizes :
        (\A i \in LiveSlots : NameOf(i) # filename)
        => CreateThenDeleteRestores(filename, size)

(***************************************************************************)
(* C13.  Format postcondition: format, invoked from any state, returns     *)
(* true and leaves every allocation-table entry in [0, total_blocks) equal *)
(* to 0, every directory record empty with zeroed fields, file_count = 0   *)
(* and free_blocks = total_blocks; formatting twice gives the same state   *)
(* as formatting once.                                                     *)
(* Stated of the state a format call has left, and of the format call made *)
(* in every reachable state.                                               *)
(***************************************************************************)
FreshlyFormatted(d) ==
    /\ \A b \in 0..(d.total_blocks - 1) : d.fat[b] = 0
    /\ \A i \in Slots : d.file_table[i] = ClearedEntry
    /\ d.file_count = U32Of(0)
    /\ d.free_blocks = d.total_blocks

C13_FormatPostcondition ==
    /\ last.op = "format" => (last.ret /\ FreshlyFormatted(g_ramdisk))
    /\ LET once == Formatted(g_ramdisk.data_blocks)
       IN  /\ FreshlyFormatted(once)
           /\ once.total_blocks = g_ramdisk.total_blocks
           /\ Formatted(once.data_blocks) = once

\* A format call has cleared a store that held a live record.
C13_Witness ==
    /\ last.op = "format"
    /\ last.replaced
    /\ FreshlyFormatted(g_ramdisk)

(***************************************************************************)
(* C16.  delete(name) for a name with no live record returns false and     *)
(* leaves the allocation table, all directory records, file_count and      *)
(* free_blocks unchanged.                                                  *)
(***************************************************************************)
C16_DeleteNotFound ==
    \A filename \in Names :
        (\A i \in LiveSlots : NameOf(i) # filename)
        => LET x == delete_file(g_ramdisk, filename)
           IN  /\ ~x.ret
               /\ x.disk.fat = g_ramdisk.fat
               /\ x.disk.file_table = g_ramdisk.file_table
               /\ x.disk.file_count = g_ramdisk.file_count
               /\ x.disk.free_blocks = g_ramdisk.free_blocks

\* A delete has found no record, in a store that holds a live record.
C16_Witness ==
    /\ last.op = "delete"
    /\ ~last.ret
    /\ last.at = 196
    /\ LiveSlots # {}

(***************************************************************************)
(* C17.  InvalidArgument: create called with an empty name or with an      *)
(* empty payload (size 0) returns false and leaves the allocation table,   *)
(* the directory, file_count and free_blocks unchanged.                    *)
(* Violated: create_file tests the size, not the name; an empty name with  *)
(* a payload is stored.                                                    *)
(***************************************************************************)
C17_InvalidArgument ==
    \A filename \in Names, size \in Sizes :
        (filename = NameEmpty \/ size = 0)
        => CreateFailsCleanly(filename, size)

(***************************************************************************)
(* C18.  Non-atomic overwrite: when create is called with a name that      *)
(* already exists and the call then fails, the old record has already been *)
(* deleted: afterwards exists(name) is false, the old file's blocks are    *)
(* free, and file_count is one lower than before the call.                 *)
(* Violated: a name of EntrySize characters or more has written a second   *)
(* live record of the name, which the delete leaves in place; and the old  *)
(* file's blocks are those its create marked used, while delete_file frees *)
(* the run that follows start_block.                                       *)
(***************************************************************************)
FailedOverwriteRemoves(filename, size) ==
    LET old == find_file_entry(g_ramdisk.file_table, filename)
        c   == create_file(g_ramdisk, filename, Payload(0, size), size)
    IN  (old # nullptr /\ ~c.ret /\ c.at \in { 126, 141 }) =>
          /\ ~file_exists(c.disk, filename)
          /\ \A b \in g_ramdisk.owned[old] : c.disk.fat[b] = 0
          /\ c.disk.file_count = U32Dec(g_ramdisk.file_count)

C18_NonAtomicOverwrite ==
    \A filename \in Names, size \in Sizes : FailedOverwriteRemoves(filename, size)

(***************************************************************************)
(* C12.  Format block count: after initialize(base, size), total_blocks    *)
(* equals floor((size - H) / block_size), where H is the number of bytes   *)
(* occupied by the descriptor, the allocation table and the directory at   *)
(* the front of the region, the data region beginning at the byte after    *)
(* the last directory record.                                              *)
(* Violated: data_blocks is file_table + file_table_size with file_table a *)
(* pointer to records, so the data region begins EntrySize times the       *)
(* directory's size after the directory's start.                           *)
(***************************************************************************)
FixedStructuresSize(size) ==
    SuperblockSize + (size \div RAMDISK_BLOCK_SIZE) + (RAMDISK_MAX_FILES * EntrySize)

C12_FormatBlockCount ==
    ( /\ last.op = "initialize"
      /\ last.ret
      /\ g_ramdisk.total_size >= FixedStructuresSize(g_ramdisk.total_size) )
    => g_ramdisk.total_blocks
         = (g_ramdisk.total_size - FixedStructuresSize(g_ramdisk.total_size))
             \div RAMDISK_BLOCK_SIZE

(***************************************************************************)
(* C14.  Undersized region: initialize on a region too small to hold the   *)
(* data area after the fixed structures still returns true and yields      *)
(* total_blocks = 0 and free_blocks = 0, with 32-bit unsigned arithmetic   *)
(* modulo 2^32.                                                            *)
(* Violated: below the offset of data_blocks the subtraction wraps to a    *)
(* value near 2^32, and total_blocks is that value over the block size.    *)
(***************************************************************************)
\* No data block fits behind the offset of data_blocks.
Undersized(size) == size < DataOffset(size) + RAMDISK_BLOCK_SIZE

C14_UndersizedRegion ==
    ( /\ last.op = "initialize"
      /\ Undersized(g_ramdisk.total_size) )
    => /\ last.ret
       /\ g_ramdisk.total_blocks = 0
       /\ g_ramdisk.free_blocks = 0

(***************************************************************************)
(* C15.  read(name, buffer, capacity) returns false exactly when no live   *)
(* record has that name or capacity is smaller than the record's size      *)
(* (capacity = size succeeds); on failure the caller's buffer is not       *)
(* written.  The record of a name is the one the lookup resolves it to:    *)
(* the first live record, in slot order, whose name compares equal.        *)
(***************************************************************************)
SlotsNamed(filename) == { i \in LiveSlots : NameOf(i) = filename }

ReadFailsExactlyWhen(filename, buffer_size) ==
    LET r    == read_file(g_ramdisk, filename, StaleBuffer(buffer_size), buffer_size)
        hits == SlotsNamed(filename)
    IN  /\ ~r.ret <=>
             \/ hits = {}
             \/ buffer_size < g_ramdisk.file_table[Lowest(hits)].size
        /\ ~r.ret => r.buffer = StaleBuffer(buffer_size)

C15_ReadFailure ==
    \A filename \in CallNames, buffer_size \in Sizes :
        ReadFailsExactlyWhen(filename, buffer_size)

\* A read has failed for a buffer smaller than the file, which exists.
C15_Witness ==
    /\ last.op = "read"
    /\ ~last.ret
    /\ last.at = 182
    /\ SlotsNamed(last.filename) # {}
    /\ last.buffer_size > 0

(***************************************************************************)
(* C19.  list(out, max_entries) copies every live record in increasing     *)
(* directory-slot order, stopping at max_entries; the returned count       *)
(* equals min(max_entries, number of live records) (0 when max_entries is  *)
(* not positive), and each copied entry equals the corresponding record's  *)
(* name, start_block, size, timestamp and type.                            *)
(***************************************************************************)
\* The k-th live slot in slot order, k from 1.
LiveSlotAt(k) ==
    CHOOSE i \in LiveSlots : Cardinality({ j \in LiveSlots : j < i }) = k - 1

Min(a, b) == IF a <= b THEN a ELSE b

ListsLiveRecords(max_entries) ==
    LET r == get_file_list(g_ramdisk, StaleList(max_entries), max_entries)
        n == IF max_entries <= 0
             THEN 0
             ELSE Min(max_entries, Cardinality(LiveSlots))
    IN  /\ r.count = n
        /\ \A k \in 1..n :
             LET e == g_ramdisk.file_table[LiveSlotAt(k)]
             IN  /\ EntryString(r.list[k]) = EntryString(e)
                 /\ r.list[k].start_block = e.start_block
                 /\ r.list[k].size = e.size
                 /\ r.list[k].timestamp = e.timestamp
                 /\ r.list[k].type = e.type
        /\ \A k \in (n + 1)..max_entries : r.list[k] = StaleEntry

C19_ListLiveRecords ==
    \A max_entries \in MaxEntries : ListsLiveRecords(max_entries)

\* A listing has stopped at max_entries with live records left, the first
\* slot being free.
C19_Witness ==
    /\ last.op = "list"
    /\ last.count > 0
    /\ last.count < Cardinality(LiveSlots)
    /\ 0 \notin LiveSlots

(***************************************************************************)
(* C20.  stat(name): when a live record has the name, the returned size    *)
(* and timestamp equal the record's; when no live record has the name, the *)
(* returned size and timestamp are both 0 regardless of what the output    *)
(* locations held before the call.                                         *)
(* Violated: get_file_info writes nothing when the name is not found, so   *)
(* the locations keep what they held.                                      *)
(***************************************************************************)
StatReturns(filename, prior) ==
    LET r    == get_file_info(g_ramdisk, filename, prior, prior)
        hits == SlotsNamed(filename)
    IN  IF hits # {}
        THEN /\ r.size = g_ramdisk.file_table[Lowest(hits)].size
             /\ r.timestamp = g_ramdisk.file_table[Lowest(hits)].timestamp
        ELSE /\ r.size = 0
             /\ r.timestamp = 0

C20_StatZeroFill ==
    \A filename \in CallNames, prior \in PriorValues : StatReturns(filename, prior)

(***************************************************************************)
(* C21 - Name bound.  A create whose name is longer than 31 characters     *)
(* (RAMDISK_FILENAME_LEN - 1: the name field less its terminator) fails,   *)
(* and it alters nothing outside name fields: the Allocation Table, the    *)
(* counters, and the start_block, size, timestamp and type of every        *)
(* record are as before, and so is every record other than the one the     *)
(* create would have taken.                                                *)
(***************************************************************************)
LongNames == { NameFull, NameOver, NameOverA }

OtherFields(e) == [e EXCEPT !.filename = << >>]

NameBoundHolds(filename, size) ==
    LET r     == create_file(g_ramdisk, filename, Payload(0, size), size)
        entry == find_free_file_entry(g_ramdisk.file_table)
    IN  /\ ~r.ret
        /\ r.disk.fat = g_ramdisk.fat
        /\ r.disk.file_count = g_ramdisk.file_count
        /\ r.disk.free_blocks = g_ramdisk.free_blocks
        /\ \A i \in Slots :
              /\ OtherFields(r.disk.file_table[i]) = OtherFields(g_ramdisk.file_table[i])
              /\ i # entry => r.disk.file_table[i] = g_ramdisk.file_table[i]

C21_NameBound ==
    \A filename \in LongNames, size \in Sizes \ {0} :
        NameBoundHolds(filename, size)

(***************************************************************************)
(* C22 - Lookups are pure.  A call of exists, list, stat or read, whatever *)
(* its arguments and its result, leaves the store as it was: descriptor,   *)
(* Allocation Table, every directory record and the Data Region.           *)
(***************************************************************************)
Lookups == { "exists", "list", "stat", "read" }

C22_LookupsPure ==
    [][last'.op \in Lookups => g_ramdisk' = g_ramdisk]_vars

\* A read has succeeded on a store that holds a file.
C22_Witness ==
    /\ last.op = "read"
    /\ last.ret
    /\ last.buffer_size > 0
    /\ g_ramdisk.free_blocks < g_ramdisk.total_blocks

(***************************************************************************)
(* C23 - Exclusive ownership of the region.  No address range that kmalloc *)
(* returns, after initialize_memory and fs_initialize, intersects the      *)
(* store's region [ramdisk_addr, ramdisk_addr + RAMDISK_DEFAULT_SIZE).     *)
(* The range returned starts at the address returned and is as long as the *)
(* rounded size; one whose end wraps past 2^32 goes on from address 0.     *)
(***************************************************************************)
U32Less(a, b) == U32Greater(b, a)

RegionStart == U32Of(ramdisk_addr)

RegionEnd == U32Of(ramdisk_addr + RAMDISK_DEFAULT_SIZE)

IntersectsRegion(ptr, len) ==
    LET end == U32Add(ptr, len)
    IN  /\ len # U32Of(0)
        /\ IF U32Less(end, ptr) \/ end = ptr
           THEN U32Less(ptr, RegionEnd) \/ U32Greater(end, RegionStart)
           ELSE U32Less(ptr, RegionEnd) /\ U32Greater(end, RegionStart)

C23_ExclusiveRegion ==
    (last.op = "kmalloc" /\ last.ret)
        => ~IntersectsRegion(last.allocated, AlignUp(last.request))

(***************************************************************************)
(* C24 - Create postcondition.  A create that returns true leaves exactly  *)
(* one live record of the name, with the size given, start_block the first *)
(* chosen block, timestamp 0 and type 0; against the table as it is after  *)
(* the delete of a previous file of the name, exactly ceil(size /          *)
(* block_size) entries go from 0 to 1 and none from 1 to 0; and exists of  *)
(* the name is true afterwards.                                            *)
(***************************************************************************)
CreatePostcondition(filename, size) ==
    LET r      == create_file(g_ramdisk, filename, Payload(0, size), size)
        before == IF r.replaced THEN delete_file(g_ramdisk, filename).disk
                                ELSE g_ramdisk
        after  == r.disk
        named  == { i \in Slots : /\ IsLive(after.file_table[i])
                                  /\ EntryString(after.file_table[i]) = filename }
        set    == { b \in Blocks : before.fat[b] = 0 /\ after.fat[b] = 1 }
        reset  == { b \in Blocks : before.fat[b] = 1 /\ after.fat[b] = 0 }
    IN  r.ret =>
          /\ Cardinality(named) = 1
          /\ \A i \in named :
                /\ after.file_table[i].size = size
                /\ after.file_table[i].start_block = r.blocks[1]
                /\ after.file_table[i].timestamp = 0
                /\ after.file_table[i].type = 0
          /\ Cardinality(set) = CeilDiv(size, RAMDISK_BLOCK_SIZE)
          /\ reset = {}
          /\ file_exists(after, filename)

C24_CreatePostcondition ==
    \A filename \in Names, size \in Sizes : CreatePostcondition(filename, size)

(***************************************************************************)
(* C25 - First-fit.  A create that returns true and needs n blocks chooses *)
(* exactly the n lowest entries of the Allocation Table that are 0 once a  *)
(* previous file of the name has been deleted, in increasing order: every  *)
(* free block left unchosen lies above every chosen one.                   *)
(***************************************************************************)
FirstFit(filename, size) ==
    LET r      == create_file(g_ramdisk, filename, Payload(0, size), size)
        before == IF r.replaced THEN delete_file(g_ramdisk, filename).disk
                                ELSE g_ramdisk
        free   == { b \in Blocks : before.fat[b] = 0 }
        n      == CeilDiv(size, RAMDISK_BLOCK_SIZE)
        chosen == { r.blocks[k] : k \in 1..Len(r.blocks) }
    IN  r.ret =>
          /\ Len(r.blocks) = n
          /\ \A k \in 1..(n - 1) : r.blocks[k] < r.blocks[k + 1]
          /\ chosen \subseteq free
          /\ \A b \in free \ chosen : \A c \in chosen : c < b

C25_FirstFit ==
    \A filename \in CallNames, size \in Sizes : FirstFit(filename, size)

\* A create of two blocks would take the blocks on either side of a used one.
C25_Witness ==
    LET r == create_file(g_ramdisk, NameA, Payload(0, RAMDISK_BLOCK_SIZE + 1),
                         RAMDISK_BLOCK_SIZE + 1)
    IN  /\ r.ret
        /\ \E k \in 1..(Len(r.blocks) - 1) : r.blocks[k + 1] > r.blocks[k] + 1

(***************************************************************************)
(* C26 - Payload placement.  A create that returns true writes payload     *)
(* bytes [k * block_size, min((k + 1) * block_size, size)) at the start of *)
(* its k-th chosen block, for every k; the bytes of the last chosen block  *)
(* past the payload's end and every block not chosen are left as they      *)
(* were.  k counts from 1 here, and data[j] is data[j + 1].                *)
(***************************************************************************)
PayloadPlaced(filename, tag, size) ==
    LET data   == Payload(tag, size)
        r      == create_file(g_ramdisk, filename, data, size)
        chosen == { r.blocks[k] : k \in 1..Len(r.blocks) }
        at(b, o) == (b * RAMDISK_BLOCK_SIZE) + o
    IN  r.ret =>
          /\ \A k \in 1..Len(r.blocks), o \in 0..(RAMDISK_BLOCK_SIZE - 1) :
                LET j == ((k - 1) * RAMDISK_BLOCK_SIZE) + o
                IN  r.disk.data_blocks[at(r.blocks[k], o)] =
                        IF j < size
                        THEN data[j + 1]
                        ELSE g_ramdisk.data_blocks[at(r.blocks[k], o)]
          /\ \A b \in Blocks \ chosen, o \in 0..(RAMDISK_BLOCK_SIZE - 1) :
                r.disk.data_blocks[at(b, o)] = g_ramdisk.data_blocks[at(b, o)]

PlacedSizes == 1..(2 * RAMDISK_BLOCK_SIZE)

C26_PayloadPlacement ==
    \A filename \in { NameA, NameB, NameC }, tag \in Tags, size \in PlacedSizes :
        PayloadPlaced(filename, tag, size)

\* A create of a block and a byte would end in a block whose later bytes
\* hold an earlier file's data.
C26_Witness ==
    LET size == RAMDISK_BLOCK_SIZE + 1
        r    == create_file(g_ramdisk, NameC, Payload(1, size), size)
    IN  /\ r.ret
        /\ Len(r.blocks) = 2
        /\ g_ramdisk.data_blocks[(r.blocks[2] * RAMDISK_BLOCK_SIZE) + 1] # 0

(***************************************************************************)
(* C27 - Delete postcondition.  A delete that returns true, of a record of *)
(* size s, clears that record (empty name; start_block, size, timestamp    *)
(* and type 0), makes exists of the name false, lowers file_count by       *)
(* exactly 1 and raises free_blocks by exactly ceil(s / block_size), and   *)
(* leaves every other directory record as it was.                          *)
(***************************************************************************)
DeletePostcondition(filename) ==
    LET r     == delete_file(g_ramdisk, filename)
        entry == find_file_entry(g_ramdisk.file_table, filename)
        s     == g_ramdisk.file_table[entry].size
    IN  r.ret =>
          /\ r.disk.file_table[entry] = ClearedEntry
          /\ ~file_exists(r.disk, filename)
          /\ g_ramdisk.file_count # U32Of(0)
          /\ r.disk.file_count = U32Dec(g_ramdisk.file_count)
          /\ r.disk.free_blocks =
                 g_ramdisk.free_blocks + CeilDiv(s, RAMDISK_BLOCK_SIZE)
          /\ \A i \in Slots \ {entry} :
                r.disk.file_table[i] = g_ramdisk.file_table[i]

C27_DeletePostcondition ==
    \A filename \in Names : DeletePostcondition(filename)

(***************************************************************************)
(* C28 - Blocks-needed arithmetic.  For every u32 payload length s the     *)
(* block count that create computes is ceil(s / block_size), also where    *)
(* s + block_size - 1 wraps modulo 2^32; and no create of a payload with   *)
(* s > 0 returns true having computed 0 blocks.                            *)
(***************************************************************************)
\* c modulo n for a u32 c, as U32Div takes c / n.
U32Mod(c, n) == ((c.hi * (Half % n)) + c.lo) % n

\* count = ceil(c / n), told by a difference: the ceiling of the largest
\* lengths is 2^31, one past the integers at hand.
IsCeilDivU32(count, c, n) ==
    count - U32Div(c, n) = (IF U32Mod(c, n) = 0 THEN 0 ELSE 1)

C28_BlocksNeeded ==
    (last.op = "create" /\ last.request # U32Of(0)) =>
        /\ IsCeilDivU32(last.count, last.request, RAMDISK_BLOCK_SIZE)
        /\ ~(last.ret /\ last.count = 0)

(***************************************************************************)
(* C29 - Cross-file data integrity.  A create or a delete on one name,     *)
(* whatever it returns, leaves the Data Region bytes of the blocks         *)
(* assigned to every live file of another name as they were.  The blocks   *)
(* assigned to a file are those its create chose (owned).                  *)
(***************************************************************************)
OthersDataKept(filename, after) ==
    \A i \in LiveSlots :
        NameOf(i) # filename =>
            \A b \in g_ramdisk.owned[i], o \in 0..(RAMDISK_BLOCK_SIZE - 1) :
                after.data_blocks[(b * RAMDISK_BLOCK_SIZE) + o]
                    = g_ramdisk.data_blocks[(b * RAMDISK_BLOCK_SIZE) + o]

C29_CrossFileIntegrity ==
    \A filename \in DataNames :
        /\ OthersDataKept(filename, delete_file(g_ramdisk, filename).disk)
        /\ \A tag \in Tags, size \in Sizes :
              OthersDataKept(filename,
                  create_file(g_ramdisk, filename, Payload(tag, size), size).disk)

(***************************************************************************)
(* C30 - Delete frees the file's own blocks.  A delete that returns true   *)
(* sets to 0 exactly the Allocation Table entries of the blocks that the   *)
(* file's create chose: it frees no block of another file and leaves none  *)
(* of its own marked used.                                                 *)
(***************************************************************************)
DeleteFreesOwn(filename) ==
    LET r     == delete_file(g_ramdisk, filename)
        entry == find_file_entry(g_ramdisk.file_table, filename)
    IN  r.ret =>
          \A b \in Blocks :
              r.disk.fat[b] = IF b \in g_ramdisk.owned[entry]
                              THEN 0
                              ELSE g_ramdisk.fat[b]

C30_DeleteFreesOwnBlocks ==
    \A filename \in { NameA, NameB, NameC } : DeleteFreesOwn(filename)

(***************************************************************************)
(* C31 - The scan never falls short.  Whenever a create passes the test    *)
(* blocks_needed <= free_blocks, its scan of the Allocation Table finds    *)
(* blocks_needed free entries: no create returns at line 141.              *)
(***************************************************************************)
C31_ScanNeverFallsShort ==
    \A filename \in { NameA, NameB, NameC }, size \in PlacedSizes :
        create_file(g_ramdisk, filename, Payload(0, size), size).at # 141

(***************************************************************************)
(* C32 - Counter bounds.  In every state reached by create and delete      *)
(* calls, 0 <= file_count <= RAMDISK_MAX_FILES and 0 <= free_blocks <=     *)
(* total_blocks.  file_count is a u32 in two halves: a count that has      *)
(* wrapped below 0 shows as one far above the bound.                       *)
(***************************************************************************)
FileCountInBounds ==
    /\ g_ramdisk.file_count.hi = 0
    /\ g_ramdisk.file_count.lo <= RAMDISK_MAX_FILES

FreeBlocksInBounds ==
    /\ 0 <= g_ramdisk.free_blocks
    /\ g_ramdisk.free_blocks <= g_ramdisk.total_blocks

C32_CounterBounds == FileCountInBounds /\ FreeBlocksInBounds

(***************************************************************************)
(* C33 - In-bounds access.  Every live record has start_block +            *)
(* ceil(size / block_size) <= total_blocks, so that delete writes only     *)
(* Allocation Table entries below total_blocks and read reads only bytes   *)
(* of the Data Region.  Stated over the records of SpecSizes, whose sizes  *)
(* are in two halves; the quotient stays on the left so that no sum passes *)
(* 2^31.                                                                   *)
(***************************************************************************)
RecordInBounds(e) ==
    U32Div(e.size, RAMDISK_BLOCK_SIZE)
        <= g_ramdisk.total_blocks - e.start_block
             - (IF U32Mod(e.size, RAMDISK_BLOCK_SIZE) = 0 THEN 0 ELSE 1)

C33_InBoundsAccess ==
    last.op = "create" =>
        \A i \in LiveSlots : RecordInBounds(g_ramdisk.file_table[i])

(***************************************************************************)
(* C34 - Layout containment.  For every region size that holds the         *)
(* descriptor, the Allocation Table and the directory, initialize lays out *)
(* the descriptor, the table (total_blocks bytes), the directory and the   *)
(* Data Region (total_blocks * block_size bytes) in disjoint byte ranges   *)
(* inside [0, size).  The ranges follow one another, so each must end      *)
(* where the next begins or before, and the last inside the region; the    *)
(* products are stated as quotients, total_blocks being a u32.             *)
(***************************************************************************)
LayoutContained(size, total_blocks) ==
    LET fat_offset        == SuperblockSize
        file_table_offset == fat_offset + (size \div RAMDISK_BLOCK_SIZE)
        file_table_end    == file_table_offset + (RAMDISK_MAX_FILES * EntrySize)
        data_offset       == DataOffset(size)
    IN  /\ total_blocks <= file_table_offset - fat_offset
        /\ file_table_end <= data_offset
        /\ data_offset <= size
        /\ total_blocks <= (size - data_offset) \div RAMDISK_BLOCK_SIZE

C34_LayoutContainment ==
    ( /\ last.op = "initialize"
      /\ g_ramdisk.total_size >= FixedStructuresSize(g_ramdisk.total_size) )
    => LayoutContained(g_ramdisk.total_size, g_ramdisk.total_blocks)

(***************************************************************************)
(* C35 - Overwrite with a full directory.  When every slot holds a live    *)
(* record (and file_count says so) and enough blocks are available - the   *)
(* payload needs no more than free_blocks and the blocks of the record it  *)
(* replaces - a create under the name of one of the records returns true,  *)
(* leaves file_count at RAMDISK_MAX_FILES and leaves the other records as  *)
(* they were.                                                              *)
(***************************************************************************)
FullDirectory == LiveSlots = Slots

OverwriteWhenFull(filename, size) ==
    LET existing_entry == find_file_entry(g_ramdisk.file_table, filename)
        r == create_file(g_ramdisk, filename, Payload(0, size), size)
    IN  ( /\ FullDirectory
          /\ g_ramdisk.file_count = U32Of(RAMDISK_MAX_FILES)
          /\ existing_entry # nullptr
          /\ CeilDiv(size, RAMDISK_BLOCK_SIZE)
               <= g_ramdisk.free_blocks + BlocksOfRecord(existing_entry) )
        => /\ r.ret
           /\ r.disk.file_count = U32Of(RAMDISK_MAX_FILES)
           /\ \A i \in Slots \ {existing_entry} :
                 r.disk.file_table[i] = g_ramdisk.file_table[i]

C35_OverwriteFullDirectory ==
    \A filename \in { NameA, NameB, NameC }, size \in Sizes \ {0} :
        OverwriteWhenFull(filename, size)

(***************************************************************************)
(* C36 - Overwrite space check.  A create under the name of an existing    *)
(* file of size s_old, with a payload that needs n blocks, returns true    *)
(* whenever n <= free_blocks + ceil(s_old / block_size), free_blocks taken *)
(* before the call.                                                        *)
(***************************************************************************)
OverwriteFits(filename, size) ==
    LET existing_entry == find_file_entry(g_ramdisk.file_table, filename)
        r == create_file(g_ramdisk, filename, Payload(0, size), size)
    IN  ( /\ existing_entry # nullptr
          /\ CeilDiv(size, RAMDISK_BLOCK_SIZE)
               <= g_ramdisk.free_blocks + BlocksOfRecord(existing_entry) )
        => r.ret

C36_OverwriteSpaceCheck ==
    \A filename \in { NameA, NameB, NameC }, size \in Sizes \ {0} :
        OverwriteFits(filename, size)

(***************************************************************************)
(* C37 - Bump arena never reuses memory.  Between initialize and reset,    *)
(* every kmalloc that does not return nullptr returns a range of the       *)
(* rounded size that lies inside [memory_start, memory_start +             *)
(* total_memory), for every 32-bit size, and the allocator's current_ptr   *)
(* stays inside the arena, so that get_used_memory is at most total_memory *)
(* and the next range starts where this one ends.                          *)
(***************************************************************************)
ArenaStart == g_allocator.memory_start

ArenaEnd == U32Add(g_allocator.memory_start, g_allocator.total_memory)

InsideArena(ptr, len) ==
    LET end == U32Add(ptr, len)
    IN  /\ ~U32Less(ptr, ArenaStart)
        /\ ~U32Less(end, ptr)
        /\ ~U32Greater(end, ArenaEnd)

C37_BumpArena ==
    /\ ~U32Less(g_allocator.current_ptr, ArenaStart)
    /\ ~U32Greater(g_allocator.current_ptr, ArenaEnd)
    /\ (last.op = "kmalloc" /\ last.ret)
          => InsideArena(last.allocated, AlignUp(last.request))

(***************************************************************************)
(* C38 - Need for mutual exclusion.  When the steps of two create calls    *)
(* interleave, two calls under way may hold the same chosen block or the   *)
(* same free record (Collision).  When every call runs to its end before   *)
(* the next one starts, creates alone, from the fresh store, never leave   *)
(* a block owned by two live records, and never leave free_blocks and the  *)
(* blocks of the live records adding up to anything but total_blocks.      *)
(***************************************************************************)
AllIdle == \A c \in Contexts : contexts.call[c].pc = "idle"

Holding == { "mark", "write", "count" }

Collision ==
    \E c, o \in Contexts :
        /\ c # o
        /\ contexts.call[c].filename # contexts.call[o].filename
        /\ contexts.call[c].pc \in Holding
        /\ contexts.call[o].pc \in Holding
        /\ \/ Chosen(contexts.call[c]) \cap Chosen(contexts.call[o]) # {}
           \/ contexts.call[c].entry = contexts.call[o].entry

OwnersAndSpace == C6_SingleOwner /\ C1_SpaceAccounting

C38_AtomicCreates ==
    (contexts.atomic /\ AllIdle) => OwnersAndSpace

\* Without the lock two calls for different names hold the same block or
\* the same record, and leave the invariants broken when both have returned.
InterleavedCollisionFree == ~(~contexts.atomic /\ Collision)

InterleavedCreatesKeepInvariants ==
    (~contexts.atomic /\ AllIdle /\ ~contexts.overwrote) => OwnersAndSpace

\* Atomic creates of names that are not in the directory yet.
AtomicFreshCreatesKeepInvariants ==
    (contexts.atomic /\ AllIdle /\ ~contexts.overwrote) => OwnersAndSpace

====
